---- MODULE Spec2Model ----
(***************************************************************************)
(* SmartSubnetAi: the VLSM allocator of src/subnet_calculator.py           *)
(* (SubnetCalculator.vlsm_allocation), modelled statement by statement,    *)
(* and the conflict engine of src/conflict_resolver.py over the tables of  *)
(* src/database.py, modelled one action per database write.                *)
(*                                                                         *)
(* Python integers are unbounded and IPv4 addresses are 32 bit wide, which *)
(* is more than a TLC integer holds.  An integer n is therefore kept as a  *)
(* pair <<hi, lo>> with n = hi * 2^16 + lo and 0 <= lo < 2^16 (hi carries  *)
(* the sign), so that 32-bit addresses, the 2^32 overflow of an address    *)
(* and host counts that need more than 32 bits are all exact.  Strings of  *)
(* addresses are dotted quads <<a, b, c, d>>.                              *)
(***************************************************************************)
EXTENDS Integers, Sequences, FiniteSets, TLC

(***************************************************************************)
(* Bounds of the model.                                                    *)
(***************************************************************************)
MaxReqs == 3

(***************************************************************************)
(* Python int arithmetic on <<hi, lo>> pairs.                              *)
(***************************************************************************)
Limb == 2^16

WInt(n) == <<n \div Limb, n % Limb>>

WAdd(a, b) == <<a[1] + b[1] + ((a[2] + b[2]) \div Limb), (a[2] + b[2]) % Limb>>

WSub(a, b) == <<a[1] - b[1] + ((a[2] - b[2]) \div Limb), (a[2] - b[2]) % Limb>>

WLt(a, b) == a[1] < b[1] \/ (a[1] = b[1] /\ a[2] < b[2])

WLe(a, b) == a = b \/ WLt(a, b)

\* 2 ** k for 0 <= k <= 46
Pow2W(k) == IF k < 16 THEN <<0, 2^k>> ELSE <<2^(k - 16), 0>>

RECURSIVE BitLen(_)
BitLen(n) == IF n = 0 THEN 0 ELSE 1 + BitLen(n \div 2)

\* int.bit_length() of a non-negative integer
bit_length(w) == IF w[1] > 0 THEN 16 + BitLen(w[1]) ELSE BitLen(w[2])

\* A plausible slip: floor(log2(n)) + 1, which adds a bit to an exact power of two.
MathCeilLog2ExtraBit(w) == bit_length(w)

\* math.ceil(math.log2(n)) for n >= 1.  The float log2 is exact on a power
\* of two and is not rounded to an integer on any other n < 2^47, so the
\* ceiling of the float equals the integer ceiling throughout the model.
MathCeilLog2(w) ==
    LET k == bit_length(w) - 1
    IN  IF w = Pow2W(k) THEN k ELSE k + 1

(***************************************************************************)
(* ipaddress: addresses, their string form, networks.                      *)
(***************************************************************************)
\* str(IPv4Address): the dotted quad
Str(a) == <<a[1] \div 256, a[1] % 256, a[2] \div 256, a[2] % 256>>

\* IPv4Address(string): the integer of a dotted quad
ParseQuad(q) == <<q[1] * 256 + q[2], q[3] * 256 + q[4]>>

\* An integer is a valid IPv4Address iff 0 <= n < 2**32
\* (else ipaddress raises AddressValueError).
ValidAddress(a) == a[1] >= 0 /\ a[1] < Limb

\* The address with the host bits below prefix p cleared (strict=False).
MaskAddr(a, p) ==
    IF p <= 16
    THEN <<(a[1] \div 2^(16 - p)) * 2^(16 - p), 0>>
    ELSE <<a[1], (a[2] \div 2^(32 - p)) * 2^(32 - p)>>

\* ipaddress.IPv4Network(f"{quad}/{p}", strict=False), for 0 <= p <= 32
IPv4Network(quad, p) ==
    [network_address |-> MaskAddr(ParseQuad(quad), p), prefixlen |-> p]

num_addresses(n) == Pow2W(32 - n.prefixlen)

broadcast_address(n) ==
    WAdd(n.network_address, WSub(num_addresses(n), WInt(1)))

netmask(n) == WSub(Pow2W(32), num_addresses(n))

\* str(IPv4Network)
StrNet(n) == <<Str(n.network_address), n.prefixlen>>

(***************************************************************************)
(* Inputs.  Host counts are Python ints: non-positive values, values whose *)
(* h + 2 is an exact power of two, a value that needs all 32 host bits and *)
(* one that needs 33.  Parent blocks are the CIDR strings handed to the    *)
(* constructor, one of them with host bits set, one at the top of the      *)
(* address space and the whole address space.                              *)
(***************************************************************************)
Big32 == <<Limb - 1, Limb - 2>>     \* 2**32 - 2: h + 2 = 2**32
Big33 == <<Limb - 1, Limb - 1>>     \* 2**32 - 1: h + 2 needs 33 bits

HostCounts ==
    {WInt(-2), WInt(-1), WInt(0), WInt(1), WInt(2), WInt(5), WInt(14), Big32, Big33}

RECURSIVE SeqsUpTo(_, _)
SeqsUpTo(S, n) ==
    IF n = 0 THEN {<<>>}
    ELSE LET shorter == SeqsUpTo(S, n - 1)
         IN  shorter \cup {Append(s, x) : s \in {t \in shorter : Len(t) = n - 1}, x \in S}

\* The requirement lists of src/main.py, src/test_system.py and the spec's scenarios.
ScenarioReqs ==
    { <<WInt(50), WInt(100), WInt(25), WInt(10)>>,
      <<WInt(100), WInt(50), WInt(25)>>,
      <<WInt(50)>> }

ReqLists == SeqsUpTo(HostCounts, MaxReqs) \cup ScenarioReqs

\* The argument of a call that follows an earlier call on the same object:
\* the earlier argument again, or a short list.
LaterReqs(earlier) == {earlier} \cup SeqsUpTo(HostCounts, 1) \cup ScenarioReqs

\* The arguments a call can take at position p of the caller.
CallArgs(p, earlier) == IF p = "idle" THEN ReqLists ELSE LaterReqs(earlier)

ParentSpecs ==
    { <<<<10, 0, 0, 0>>, 24>>,
      <<<<10, 0, 0, 0>>, 16>>,
      <<<<10, 0, 0, 5>>, 28>>,
      <<<<192, 168, 1, 0>>, 30>>,
      <<<<255, 255, 255, 240>>, 28>>,
      <<<<192, 168, 255, 0>>, 24>>,
      <<<<0, 0, 0, 0>>, 0>> }

\* ConflictDetectionEngine.quarantine_subnet, the string "192.168.255.0/24"
quarantine_subnet == <<<<192, 168, 255, 0>>, 24>>

(***************************************************************************)
(* State.  network is self.network; requirements, sorted_reqs, allocations,*)
(* available_network and idx are the argument and the locals of the call   *)
(* in progress; pc is the position of the caller/call; last_result is the  *)
(* list returned by the previous call when this call repeats its argument. *)
(***************************************************************************)
VARIABLES network, requirements, sorted_reqs, allocations, available_network,
          idx, pc, last_result

(***************************************************************************)
(* State of the conflict engine and its database (src/database.py,         *)
(* src/conflict_resolver.py).  devices and conflicts are the tables        *)
(* network_devices and ip_conflicts in id order; now is the clock read by  *)
(* datetime.utcnow; epc is the position inside run_full_scan ("idle"       *)
(* outside it); authorized_subnets, duplicates, unauthorized, pos,         *)
(* total_conflicts, conflict and new_ip are the argument and the locals of *)
(* the scan and of the remediation in progress; ret is the operation that  *)
(* returned last, its arguments and its value; scan_start is the devices   *)
(* table as it was when the running run_full_scan began, conflicts_start   *)
(* the conflicts table at that moment, and rescan tells that the running   *)
(* scan was called right after a run_full_scan returned for the same       *)
(* authorized list.                                                        *)
(***************************************************************************)
VARIABLES devices, conflicts, now, epc, authorized_subnets, duplicates,
          unauthorized, pos, total_conflicts, conflict, new_ip, ret, scan_start,
          conflicts_start, rescan

avars == <<network, requirements, sorted_reqs, allocations, available_network,
           idx, pc, last_result>>

evars == <<devices, conflicts, now, epc, authorized_subnets, duplicates,
           unauthorized, pos, total_conflicts, conflict, new_ip, ret, scan_start,
           conflicts_start, rescan>>

vars == <<network, requirements, sorted_reqs, allocations, available_network,
          idx, pc, last_result,
          devices, conflicts, now, epc, authorized_subnets, duplicates,
          unauthorized, pos, total_conflicts, conflict, new_ip, ret, scan_start,
          conflicts_start, rescan>>

\* the value of a local that holds nothing
NoReturn == [op |-> "none", args |-> <<>>, value |-> 0]

\* SubnetCalculator.__init__, and DatabaseManager.__init__ /
\* ConflictDetectionEngine.__init__ on a new database file
Init ==
    /\ \E spec \in ParentSpecs : network = IPv4Network(spec[1], spec[2])
    /\ requirements = <<>>
    /\ sorted_reqs = <<>>
    /\ allocations = <<>>
    /\ available_network = network
    /\ idx = 1
    /\ pc = "idle"
    /\ last_result = <<>>
    /\ devices = <<>>
    /\ conflicts = <<>>
    /\ now = 0
    /\ epc = "idle"
    /\ authorized_subnets = <<>>
    /\ duplicates = <<>>
    /\ unauthorized = <<>>
    /\ pos = 1
    /\ total_conflicts = 0
    /\ conflict = 0
    /\ new_ip = <<>>
    /\ ret = NoReturn
    /\ scan_start = <<>>
    /\ conflicts_start = <<>>
    /\ rescan = FALSE

(***************************************************************************)
(* sorted(requirements, reverse=True)                                      *)
(***************************************************************************)
RECURSIVE MaxIndex(_, _)
\* index of the first greatest element among s[1..n]
MaxIndex(s, n) ==
    IF n = 1 THEN 1
    ELSE LET m == MaxIndex(s, n - 1)
         IN  IF WLt(s[m], s[n]) THEN n ELSE m

RemoveAt(s, i) == SubSeq(s, 1, i - 1) \o SubSeq(s, i + 1, Len(s))

\* A plausible slip: the list is used in the caller's order.
SortedUnsorted(s) == s

RECURSIVE SortedReverse(_)
SortedReverse(s) ==
    IF s = <<>> THEN <<>>
    ELSE LET m == MaxIndex(s, Len(s))
         IN  <<s[m]>> \o SortedReverse(RemoveAt(s, m))

(***************************************************************************)
(* The body of the loop of vlsm_allocation.                                *)
(***************************************************************************)
\* The fit test of the code: the candidate lies inside available_network.
FitsAlways(subnet, avail) == TRUE

Fits(subnet, avail) ==
    ~ ( WLt(subnet.network_address, avail.network_address)
        \/ WLt(broadcast_address(avail), broadcast_address(subnet)) )

\* The dict appended for a committed subnet.
Allocation(i, hosts_needed, subnet) ==
    [ subnet_id         |-> i,
      required_hosts    |-> hosts_needed,
      subnet            |-> StrNet(subnet),
      usable_hosts      |-> WSub(num_addresses(subnet), WInt(2)),
      network_address   |-> Str(subnet.network_address),
      broadcast_address |-> Str(broadcast_address(subnet)),
      first_usable      |-> Str(WAdd(subnet.network_address, WInt(1))),
      last_usable       |-> Str(WSub(broadcast_address(subnet), WInt(1))),
      netmask           |-> Str(netmask(subnet)) ]

\* What the author meant: the number of addresses between the two.
AddressMinusAddressAsInt(a, b) == [raised |-> FALSE, value |-> WSub(a, b)]

\* available_network.broadcast_address - next_address: both operands are
\* IPv4Address objects, and IPv4Address.__sub__ accepts an int only, so the
\* expression raises TypeError.
AddressMinusAddress(a, b) == [raised |-> TRUE, value |-> WInt(0)]

\* The "remaining block" of the code: next_address with the prefix of the
\* smallest power of two >= remaining, host bits cleared.
RemainingNetwork(next_address, remaining) ==
    IPv4Network(Str(next_address), 32 - bit_length(WSub(remaining, WInt(1))))

\* The statements inside try: kind is how they end ("continue" with the
\* next requirement, "break", or "exception"), appended the dicts they
\* appended to allocations, avail the value they leave in available_network.
TryBody(avail, i, hosts_needed, new_prefix) ==
    IF new_prefix \notin 0..32
    THEN \* NetmaskValueError from IPv4Network
         [kind |-> "exception", appended |-> <<>>, avail |-> avail]
    ELSE
    LET subnet == IPv4Network(Str(avail.network_address), new_prefix)
        next_address == WAdd(broadcast_address(subnet), WInt(1))
        diff == AddressMinusAddress(broadcast_address(avail), next_address)
    IN  IF ~ Fits(subnet, avail)
        THEN [kind |-> "break", appended |-> <<>>, avail |-> avail]
        ELSE IF ~ ValidAddress(WAdd(subnet.network_address, WInt(1)))
                \/ ~ ValidAddress(WSub(broadcast_address(subnet), WInt(1)))
        THEN \* AddressValueError while the dict is built
             [kind |-> "exception", appended |-> <<>>, avail |-> avail]
        ELSE
        LET done == <<Allocation(i, hosts_needed, subnet)>>
        IN  IF ~ ValidAddress(next_address)
            THEN \* AddressValueError from broadcast_address + 1
                 [kind |-> "exception", appended |-> done, avail |-> avail]
            ELSE IF WLe(next_address, broadcast_address(avail))
            THEN IF diff.raised
                 THEN [kind |-> "exception", appended |-> done, avail |-> avail]
                 ELSE [kind |-> "continue", appended |-> done,
                       avail |-> RemainingNetwork(next_address, WAdd(diff.value, WInt(1)))]
            ELSE [kind |-> "break", appended |-> done, avail |-> avail]

\* A handler that lets the exception escape.
ExceptReraise(r) == r

\* except Exception as e: print, break
ExceptHandler(r) == IF r.kind = "exception" THEN [r EXCEPT !.kind = "break"] ELSE r

(***************************************************************************)
(* vlsm_allocation, one action per position.                               *)
(***************************************************************************)
\* The call keeps appending to the list of the previous call.
VlsmCallAccumulate ==
    /\ pc \in {"idle", "returned", "raised"}
    /\ \E reqs \in CallArgs(pc, requirements) :
         /\ last_result' = IF pc = "returned" /\ reqs = requirements
                           THEN <<allocations>> ELSE <<>>
         /\ requirements' = reqs
         /\ sorted_reqs' = SortedReverse(reqs)
    /\ available_network' = network
    /\ idx' = 1
    /\ pc' = "loop"
    /\ UNCHANGED <<network, allocations>>
    /\ UNCHANGED evars

\* Entry: sort, empty the result list, start from the parent block.
VlsmCall ==
    /\ pc \in {"idle", "returned", "raised"}
    /\ \E reqs \in CallArgs(pc, requirements) :
         /\ last_result' = IF pc = "returned" /\ reqs = requirements
                           THEN <<allocations>> ELSE <<>>
         /\ requirements' = reqs
         /\ sorted_reqs' = SortedReverse(reqs)
    /\ allocations' = <<>>
    /\ available_network' = network
    /\ idx' = 1
    /\ pc' = "loop"
    /\ UNCHANGED network
    /\ UNCHANGED evars

\* One iteration of the for loop.
VlsmIterate ==
    /\ pc = "loop"
    /\ idx <= Len(sorted_reqs)
    /\ LET hosts_needed == sorted_reqs[idx]
           total_needed == WAdd(hosts_needed, WInt(2))
       IN  IF ~ WLt(WInt(0), total_needed)
           THEN \* math.log2 raises ValueError outside the try
                /\ pc' = "raised"
                /\ UNCHANGED <<allocations, available_network, idx>>
           ELSE LET host_bits == MathCeilLog2(total_needed)
                    new_prefix == 32 - host_bits
                    r == ExceptHandler(TryBody(available_network, idx, hosts_needed, new_prefix))
                IN  /\ allocations' = allocations \o r.appended
                    /\ available_network' = r.avail
                    /\ idx' = IF r.kind = "continue" THEN idx + 1 ELSE idx
                    /\ pc' = CASE r.kind = "continue"  -> "loop"
                               [] r.kind = "break"     -> "exit"
                               [] r.kind = "exception" -> "raised"
    /\ UNCHANGED <<network, requirements, sorted_reqs, last_result>>
    /\ UNCHANGED evars

\* The loop is over (exhausted or left by break): return allocations.
VlsmReturn ==
    /\ \/ pc = "exit"
       \/ pc = "loop" /\ idx > Len(sorted_reqs)
    /\ pc' = "returned"
    /\ UNCHANGED <<network, requirements, sorted_reqs, allocations,
                   available_network, idx, last_result>>
    /\ UNCHANGED evars

Next == VlsmCall \/ VlsmIterate \/ VlsmReturn

Spec == Init /\ [][Next]_vars

(***************************************************************************)
(* Vocabulary of the properties, stated on the returned dicts alone.       *)
(***************************************************************************)
Returned == pc = "returned"

\* [network, broadcast] of a returned allocation, read back from its strings
RangeLo(a) == ParseQuad(a.network_address)
RangeHi(a) == ParseQuad(a.broadcast_address)

Disjoint(a, b) == WLt(RangeHi(a), RangeLo(b)) \/ WLt(RangeHi(b), RangeLo(a))

InsideParent(a) ==
    /\ WLe(network.network_address, RangeLo(a))
    /\ WLe(RangeHi(a), broadcast_address(network))

\* the request values carried by the returned list, in returned order
Carried == [i \in 1..Len(allocations) |-> allocations[i].required_hosts]

Positive(h) == WLt(WInt(0), h)

\* the smallest k with 2^k >= h + 2, for h + 2 >= 1
NeededBits(h) ==
    CHOOSE k \in 0..40 :
        /\ WLe(WAdd(h, WInt(2)), Pow2W(k))
        /\ \A j \in 0..(k - 1) : WLt(Pow2W(j), WAdd(h, WInt(2)))

RECURSIVE Demand(_)
\* the sum over the requirements h of 2^ceil(log2(h + 2))
Demand(reqs) ==
    IF reqs = <<>> THEN WInt(0)
    ELSE WAdd(Pow2W(NeededBits(Head(reqs))), Demand(Tail(reqs)))

\* the demand is defined for every requirement (h + 2 >= 1)
DemandDefined(reqs) == \A i \in 1..Len(reqs) : WLe(WInt(-1), reqs[i])

Capacity == num_addresses(network)

Count(s, x) == Cardinality({i \in 1..Len(s) : s[i] = x})

\* r is the beginning of reqs taken largest first
IsGreedyPrefix(r, reqs) ==
    /\ \A i \in 1..Len(r) : Count(r, r[i]) <= Count(reqs, r[i])
    /\ \A i, j \in 1..Len(r) : i < j => WLe(r[j], r[i])
    /\ \A k \in 1..Len(reqs) :
          Count(r, reqs[k]) < Count(reqs, reqs[k])
              => \A i \in 1..Len(r) : WLe(reqs[k], r[i])

C2_InsideParent ==
    Returned => \A i \in 1..Len(allocations) : InsideParent(allocations[i])

\* a returned allocation that is a proper part of the parent block
C2_Witness ==
    /\ Returned
    /\ \E i \in 1..Len(allocations) :
          /\ InsideParent(allocations[i])
          /\ allocations[i].subnet[2] > network.prefixlen

\* C3: when the total demand is at most the capacity of the parent block,
\* the call returns exactly one allocation per requirement.
C3_AllAllocated ==
    (Returned /\ DemandDefined(requirements)
        /\ WLe(Demand(requirements), Capacity))
    => Len(allocations) = Len(requirements)

\* C4: when the total demand exceeds the capacity of the parent block, the
\* call returns fewer allocations than requirements, and those returned are
\* the first ones of the largest-first order.
C4_StrictGreedyPrefix ==
    (Returned /\ DemandDefined(requirements)
        /\ WLt(Capacity, Demand(requirements)))
    => /\ Len(allocations) < Len(requirements)
       /\ IsGreedyPrefix(Carried, requirements)

\* the demand exceeds the capacity and a non-empty, incomplete list came back
C4_Witness ==
    /\ Returned /\ DemandDefined(requirements)
    /\ WLt(Capacity, Demand(requirements))
    /\ Len(allocations) >= 1
    /\ Len(allocations) < Len(requirements)

\* C5: the returned list is in descending order of requested host count,
\* every returned allocation carries a request value of the caller, and the
\* first returned allocation is for the largest requirement.
C5_DescendingOrder ==
    Returned =>
        /\ \A i, j \in 1..Len(Carried) : i < j => WLe(Carried[j], Carried[i])
        /\ \A i \in 1..Len(Carried) :
              Count(Carried, Carried[i]) <= Count(requirements, Carried[i])
        /\ Len(Carried) >= 1 =>
              \A k \in 1..Len(requirements) : WLe(requirements[k], Carried[1])

\* the caller's first requirement is not the largest, the first result is
C5_Witness ==
    /\ Returned /\ Len(allocations) >= 1
    /\ WLt(requirements[1], allocations[1].required_hosts)

\* C6: for a committed request h >= 1 the granted block size is the smallest
\* power of two >= h + 2 (prefix = 32 - hostBits), usable hosts = size - 2
\* >= h, and the size equals h + 2 when h + 2 is a power of two.
C6_SmallestPowerOfTwo ==
    \A i \in 1..Len(allocations) :
        LET a == allocations[i]
            h == a.required_hosts
            bits == 32 - a.subnet[2]
            size == Pow2W(bits)
        IN  Positive(h) =>
              /\ bits \in 2..32
              /\ WLe(WAdd(h, WInt(2)), size)
              /\ WLt(Pow2W(bits - 1), WAdd(h, WInt(2)))
              /\ WAdd(ParseQuad(a.broadcast_address), WInt(1))
                    = WAdd(ParseQuad(a.network_address), size)
              /\ a.usable_hosts = WSub(size, WInt(2))
              /\ WLe(h, a.usable_hosts)
              /\ (\E k \in 0..32 : WAdd(h, WInt(2)) = Pow2W(k))
                    => size = WAdd(h, WInt(2))

\* a committed request whose h + 2 is exactly a power of two
C6_Witness ==
    /\ Returned
    /\ \E i \in 1..Len(allocations) :
          /\ allocations[i].required_hosts = WInt(14)
          /\ allocations[i].subnet[2] = 28

\* C7: a host count <= 0 is rejected: no subnet is allocated for it.
C7_NonPositiveRejected ==
    Returned => \A i \in 1..Len(allocations) : Positive(allocations[i].required_hosts)

\* C8: with every host count >= 1 the call never raises, whatever the size
\* of the host counts and wherever the granted block ends.
C8_NeverRaises ==
    pc = "raised" => \E i \in 1..Len(requirements) : ~ Positive(requirements[i])

\* well-formed input whose granted block ends at 255.255.255.255
C8_Witness ==
    /\ Returned
    /\ \A i \in 1..Len(requirements) : Positive(requirements[i])
    /\ Len(allocations) >= 1
    /\ allocations[1].broadcast_address = <<255, 255, 255, 255>>

\* C9: a call that repeats the argument of the previous call on the same
\* parent block returns the list the previous call returned.
C9_SameInputSameResult ==
    (Returned /\ last_result # <<>>) => allocations = last_result[1]

\* a repeated call that returned a non-empty list
C9_Witness ==
    Returned /\ last_result # <<>> /\ Len(allocations) >= 1

\* C10: parent 10.0.0.0/24, requirements [50,100,25,10]: 4 allocations for
\* 100, 50, 25, 10 in that order, the first 10.0.0.0/25 with 126 usable
\* hosts, none overlapping, all inside the parent.
C10_Scenario24 ==
    ( /\ Returned
      /\ network = IPv4Network(<<10, 0, 0, 0>>, 24)
      /\ requirements = <<WInt(50), WInt(100), WInt(25), WInt(10)>> )
    => /\ Len(allocations) = 4
       /\ Carried = <<WInt(100), WInt(50), WInt(25), WInt(10)>>
       /\ allocations[1].subnet = <<<<10, 0, 0, 0>>, 25>>
       /\ allocations[1].usable_hosts = WInt(126)
       /\ \A i, j \in 1..4 : i # j => Disjoint(allocations[i], allocations[j])
       /\ \A i \in 1..4 : InsideParent(allocations[i])

\* some largest requirement, when its demand is defined (h + 2 >= 1)
HasLargest(h) ==
    /\ \E k \in 1..Len(requirements) : requirements[k] = h
    /\ \A k \in 1..Len(requirements) : WLe(requirements[k], h)
    /\ WLe(WInt(-1), h)

\* C11: when the block needed for the largest requirement is larger than
\* the parent block, the call returns zero allocations.
C11_LargestTooBig ==
    Returned =>
        \A k \in 1..Len(requirements) :
            ( HasLargest(requirements[k])
              /\ WLt(Capacity, Pow2W(NeededBits(requirements[k]))) )
            => allocations = <<>>

\* parent 192.168.1.0/30 with requirement [50] came back empty
C11_Witness ==
    /\ Returned
    /\ network = IPv4Network(<<192, 168, 1, 0>>, 30)
    /\ requirements = <<WInt(50)>>
    /\ allocations = <<>>

\* the range of the reserved quarantine block
QuarantineLo == MaskAddr(ParseQuad(quarantine_subnet[1]), quarantine_subnet[2])
QuarantineHi == WAdd(QuarantineLo, WSub(Pow2W(32 - quarantine_subnet[2]), WInt(1)))

\* C12: no subnet returned by vlsm_allocation overlaps the reserved
\* quarantine block 192.168.255.0/24.
C12_NeverQuarantineBlock ==
    Returned =>
        \A i \in 1..Len(allocations) :
            \/ WLt(RangeHi(allocations[i]), QuarantineLo)
            \/ WLt(QuarantineHi, RangeLo(allocations[i]))

(***************************************************************************)
(* The conflict engine: bounds and inputs.                                 *)
(***************************************************************************)
\* rows in the two tables together, the last reading of the clock, and the
\* conflicts logged by a direct call of log_conflict
MaxRows == 4
MaxTime == 1
MaxDirect == 1

\* random.randint(10, 100)
RandLow == 10
RandHigh == 100

\* A plausible slip: an offset range that starts at the network address
\* and runs past the intended upper end.
RandomOffsetsShifted == {0, RandHigh + 1}

\* The values of random.randint(RandLow, RandHigh) the model draws: both ends.
RandomOffsets == {RandLow, RandHigh}

\* The (ip, subnet) arguments of add_device: a host of 192.168.1.0/24, and
\* the network and the broadcast address of that block.
DeviceInputs ==
    { [ip |-> <<192, 168, 1, 10>>,  subnet |-> <<<<192, 168, 1, 0>>, 24>>],
      [ip |-> <<192, 168, 1, 0>>,   subnet |-> <<<<192, 168, 1, 0>>, 24>>],
      [ip |-> <<192, 168, 1, 255>>, subnet |-> <<<<192, 168, 1, 0>>, 24>>] }

\* The authorized_subnets arguments: none, one block written with host bits
\* set, and a list whose second block holds the lower half of 192.168.1.0/24.
AuthorizedLists ==
    { <<>>,
      << <<<<192, 168, 1, 77>>, 24>> >>,
      << <<<<10, 0, 1, 0>>, 24>>, <<<<192, 168, 1, 0>>, 25>> >> }

\* The method strings of a manual resolve_conflict: the default of the
\* dashboard's text field, and the field emptied.  A string is a tuple of
\* its parts, "" the empty tuple.
ManualMethods == { <<"Manual intervention">>, <<>> }

(***************************************************************************)
(* src/database.py                                                         *)
(***************************************************************************)
\* NetworkDevice(...) as add_device builds it, with the next id
NewDevice(id, in, t) ==
    [ id          |-> id,
      device_name |-> <<"Device", id>>,
      ip_address  |-> in.ip,
      device_type |-> "server",
      subnet      |-> in.subnet,
      mac_address |-> "00:00:00:00:00:00",
      last_seen   |-> t,
      status      |-> "active" ]

\* IPConflict(...) as log_conflict builds it, with the column defaults; a
\* NULL column is the empty tuple, a set column the one-element tuple.
NewConflict(id, ip, subnet, conflict_type, t) ==
    [ id                |-> id,
      ip_address        |-> ip,
      subnet            |-> subnet,
      conflict_type     |-> conflict_type,
      detected_at       |-> t,
      resolved          |-> FALSE,
      resolved_at       |-> <<>>,
      resolution_method |-> <<>> ]

\* DatabaseManager.log_conflict: the table after the insert
log_conflict(table, ip, subnet, conflict_type, t) ==
    Append(table, NewConflict(Len(table) + 1, ip, subnet, conflict_type, t))

\* A resolve that toggles the flag.
MarkResolvedToggle(c, method, t) ==
    [c EXCEPT !.resolved = ~ c.resolved,
              !.resolved_at = <<t>>,
              !.resolution_method = <<method>>]

\* The three assignments of resolve_conflict on the row found.
MarkResolved(c, method, t) ==
    [c EXCEPT !.resolved = TRUE,
              !.resolved_at = <<t>>,
              !.resolution_method = <<method>>]

\* query(IPConflict).filter_by(id=conflict_id).first() found a row
ConflictExists(table, conflict_id) == conflict_id \in 1..Len(table)

\* DatabaseManager.resolve_conflict: the table after the call
resolve_conflict(table, conflict_id, method, t) ==
    IF ConflictExists(table, conflict_id)
    THEN [table EXCEPT ![conflict_id] = MarkResolved(@, method, t)]
    ELSE table

(***************************************************************************)
(* src/conflict_resolver.py: the scans and quarantine_device               *)
(***************************************************************************)
\* A query without the status filter.
QueryAll(table, status) == table

\* query(NetworkDevice).filter_by(status=status).all(), in id order
QueryByStatus(table, status) == SelectSeq(table, LAMBDA d : d.status = status)

RECURSIVE ScanLoop(_, _, _)
\* the for loop of scan_for_duplicates over the rest of the devices, with
\* ip_registry (ip -> id of its first holder) and the pairs found so far
ScanLoop(rest, ip_registry, found) ==
    IF rest = <<>> THEN found
    ELSE LET device == Head(rest)
             ip == device.ip_address
         IN  IF ip \in DOMAIN ip_registry
             THEN ScanLoop(Tail(rest), ip_registry,
                           Append(found, [ip |-> ip,
                                          device1 |-> ip_registry[ip],
                                          device2 |-> device.id]))
             ELSE ScanLoop(Tail(rest), (ip :> device.id) @@ ip_registry, found)

\* ip_registry = {}
EmptyRegistry == [ip \in {} |-> 0]

\* ConflictDetectionEngine.scan_for_duplicates
scan_for_duplicates(table) ==
    ScanLoop(QueryByStatus(table, "active"), EmptyRegistry, <<>>)

\* Membership that leaves out the network and the broadcast address.
ContainsHostsOnly(subnet, a) ==
    WLt(subnet.network_address, a) /\ WLt(a, broadcast_address(subnet))

\* device_ip in subnet
Contains(subnet, a) ==
    WLe(subnet.network_address, a) /\ WLe(a, broadcast_address(subnet))

\* the inner loop of scan_for_unauthorized for one device
IsAuthorized(ip, authorized) ==
    \E i \in 1..Len(authorized) :
        Contains(IPv4Network(authorized[i][1], authorized[i][2]), ParseQuad(ip))

\* ConflictDetectionEngine.scan_for_unauthorized: the ids of the devices found
scan_for_unauthorized(table, authorized) ==
    LET flagged == SelectSeq(QueryByStatus(table, "active"),
                             LAMBDA d : ~ IsAuthorized(d.ip_address, authorized))
    IN  [i \in 1..Len(flagged) |-> flagged[i].id]

\* The address quarantine_device draws with offset n.
QuarantineIp(n) ==
    Str(WAdd(IPv4Network(quarantine_subnet[1], quarantine_subnet[2]).network_address,
             WInt(n)))

\* A quarantine that leaves the status alone.
QuarantinedStaysActive(d, ip) ==
    [d EXCEPT !.ip_address = ip, !.subnet = quarantine_subnet]

\* The three assignments of quarantine_device to the device.
Quarantined(d, ip) ==
    [d EXCEPT !.ip_address = ip, !.status = "quarantined", !.subnet = quarantine_subnet]

\* A method string that names the block, not the address.
AutoMethodBlock(ip) == <<"Auto-quarantine to ", quarantine_subnet[1]>>

\* f"Auto-quarantine to {new_ip}"
AutoMethod(ip) == <<"Auto-quarantine to ", ip>>

\* A rate over the open conflicts alone.
ResolutionRateOfActive(active, resolved) ==
    IF active > 0 THEN <<resolved * 100, active>> ELSE <<0, 1>>

\* (resolved / (active + resolved) * 100) if (active + resolved) > 0 else 0,
\* the float kept as the exact fraction <<numerator, denominator>>
ResolutionRate(active, resolved) ==
    IF (active + resolved) > 0 THEN <<resolved * 100, active + resolved>> ELSE <<0, 1>>

\* ConflictDetectionEngine.get_conflict_report
get_conflict_report(device_table, conflict_table) ==
    LET active == Len(SelectSeq(conflict_table, LAMBDA c : c.resolved = FALSE))
        resolved == Len(SelectSeq(conflict_table, LAMBDA c : c.resolved = TRUE))
        quarantined == Len(QueryByStatus(device_table, "quarantined"))
    IN  [ active_conflicts    |-> active,
          resolved_conflicts  |-> resolved,
          quarantined_devices |-> quarantined,
          resolution_rate     |-> ResolutionRate(active, resolved) ]

(***************************************************************************)
(* Operations on the database while no scan runs.                          *)
(***************************************************************************)
\* the locals of run_full_scan, which no other operation touches
scan_locals == <<authorized_subnets, duplicates, unauthorized, pos,
                 total_conflicts, conflict, new_ip, scan_start,
                 conflicts_start, rescan>>

\* datetime.utcnow() moves on.
Tick ==
    /\ now < MaxTime
    /\ now' = now + 1
    /\ UNCHANGED <<devices, conflicts, epc, ret>>
    /\ UNCHANGED scan_locals
    /\ UNCHANGED avars

\* DatabaseManager.add_device
AddDevice ==
    /\ epc = "idle"
    /\ Len(devices) + Len(conflicts) < MaxRows
    /\ \E in \in DeviceInputs :
          devices' = Append(devices, NewDevice(Len(devices) + 1, in, now))
    /\ ret' = [op |-> "add_device", args |-> <<>>, value |-> Len(devices) + 1]
    /\ UNCHANGED <<conflicts, now, epc>>
    /\ UNCHANGED scan_locals
    /\ UNCHANGED avars

\* DatabaseManager.log_conflict called directly (test_database,
\* data_collector.collect_snapshot)
LogConflict ==
    /\ epc = "idle"
    /\ Len(devices) + Len(conflicts) < MaxRows
    /\ Len(SelectSeq(conflicts, LAMBDA c : c.conflict_type = "test")) < MaxDirect
    /\ conflicts' = log_conflict(conflicts, <<192, 168, 1, 1>>,
                                 <<<<192, 168, 1, 0>>, 24>>, "test", now)
    /\ ret' = [op |-> "log_conflict", args |-> <<>>, value |-> Len(conflicts) + 1]
    /\ UNCHANGED <<devices, now, epc>>
    /\ UNCHANGED scan_locals
    /\ UNCHANGED avars

\* DatabaseManager.resolve_conflict called directly (the dashboard's
\* "Mark as Resolved" with any id typed in, test_database)
ResolveConflict ==
    /\ epc = "idle"
    /\ \E conflict_id \in 1..(Len(conflicts) + 1), method \in ManualMethods :
          /\ conflicts' = resolve_conflict(conflicts, conflict_id, method, now)
          /\ ret' = [op |-> "resolve_conflict", args |-> conflict_id,
                     value |-> ConflictExists(conflicts, conflict_id)]
    /\ UNCHANGED <<devices, now, epc>>
    /\ UNCHANGED scan_locals
    /\ UNCHANGED avars

\* ConflictDetectionEngine.get_conflict_report
GetConflictReport ==
    /\ epc = "idle"
    /\ ret' = [op |-> "get_conflict_report", args |-> <<>>,
               value |-> get_conflict_report(devices, conflicts)]
    /\ UNCHANGED <<devices, conflicts, now, epc>>
    /\ UNCHANGED scan_locals
    /\ UNCHANGED avars

\* ConflictDetectionEngine.scan_for_duplicates called directly
ScanForDuplicates ==
    /\ epc = "idle"
    /\ ret' = [op |-> "scan_for_duplicates", args |-> <<>>,
               value |-> scan_for_duplicates(devices)]
    /\ UNCHANGED <<devices, conflicts, now, epc>>
    /\ UNCHANGED scan_locals
    /\ UNCHANGED avars

\* ConflictDetectionEngine.scan_for_unauthorized called directly
ScanForUnauthorized ==
    /\ epc = "idle"
    /\ \E authorized \in AuthorizedLists :
          ret' = [op |-> "scan_for_unauthorized", args |-> authorized,
                  value |-> scan_for_unauthorized(devices, authorized)]
    /\ UNCHANGED <<devices, conflicts, now, epc>>
    /\ UNCHANGED scan_locals
    /\ UNCHANGED avars

(***************************************************************************)
(* run_full_scan, one action per database write.                           *)
(***************************************************************************)
\* the number of rows a scan of the table logs: one per duplicate pair and
\* one per active device left unauthorized after the pairs are remediated
RowsLogged(table, authorized) ==
    LET dups == scan_for_duplicates(table)
        second == {dups[i].device2 : i \in 1..Len(dups)}
        left == SelectSeq(QueryByStatus(table, "active"),
                          LAMBDA d : d.id \notin second
                                     /\ ~ IsAuthorized(d.ip_address, authorized))
    IN  Len(dups) + Len(left)

\* run_full_scan up to the first loop: total_conflicts = 0 and the
\* duplicate scan.  A scan starts only if the rows it logs fit the bound.
FullScanBegin ==
    /\ epc = "idle"
    /\ \E authorized \in AuthorizedLists :
          /\ Len(devices) + Len(conflicts) + RowsLogged(devices, authorized) <= MaxRows
          /\ authorized_subnets' = authorized
          /\ rescan' = (ret.op = "run_full_scan" /\ ret.args[1] = authorized)
    /\ duplicates' = scan_for_duplicates(devices)
    /\ unauthorized' = <<>>
    /\ pos' = 1
    /\ total_conflicts' = 0
    /\ conflict' = 0
    /\ new_ip' = <<>>
    /\ scan_start' = devices
    /\ conflicts_start' = conflicts
    /\ ret' = NoReturn
    /\ epc' = "dup_loop"
    /\ UNCHANGED <<devices, conflicts, now>>
    /\ UNCHANGED avars

\* auto_remediate_duplicate up to log_conflict
DupLogConflict ==
    /\ epc = "dup_loop"
    /\ pos <= Len(duplicates)
    /\ LET dup == duplicates[pos]
       IN  conflicts' = log_conflict(conflicts, dup.ip,
                                     devices[dup.device1].subnet, "duplicate", now)
    /\ conflict' = Len(conflicts) + 1
    /\ epc' = "dup_logged"
    /\ UNCHANGED <<devices, now, authorized_subnets, duplicates, unauthorized,
                   pos, total_conflicts, new_ip, ret, scan_start,
                   conflicts_start, rescan>>
    /\ UNCHANGED avars

\* A duplicate remediation that hands over the first device of the pair.
TargetFirst ==
    IF epc \in {"dup_logged", "dup_quarantined"}
    THEN duplicates[pos].device1
    ELSE unauthorized[pos]

\* the device the remediation in progress hands to quarantine_device
Target ==
    IF epc \in {"dup_logged", "dup_quarantined"}
    THEN duplicates[pos].device2
    ELSE unauthorized[pos]

\* A quarantine that also stamps the device as seen.
QuarantineDeviceSeen ==
    /\ epc \in {"dup_logged", "un_logged"}
    /\ \E n \in RandomOffsets :
          /\ new_ip' = QuarantineIp(n)
          /\ devices' = [devices EXCEPT
                ![Target] = [Quarantined(@, QuarantineIp(n)) EXCEPT !.last_seen = now + 1]]
    /\ epc' = IF epc = "dup_logged" THEN "dup_quarantined" ELSE "un_quarantined"
    /\ UNCHANGED <<conflicts, now, authorized_subnets, duplicates, unauthorized,
                   pos, total_conflicts, conflict, ret, scan_start,
                   conflicts_start, rescan>>
    /\ UNCHANGED avars

\* quarantine_device, called by either remediation
QuarantineDevice ==
    /\ epc \in {"dup_logged", "un_logged"}
    /\ \E n \in RandomOffsets :
          /\ new_ip' = QuarantineIp(n)
          /\ devices' = [devices EXCEPT ![Target] = Quarantined(@, QuarantineIp(n))]
    /\ epc' = IF epc = "dup_logged" THEN "dup_quarantined" ELSE "un_quarantined"
    /\ UNCHANGED <<conflicts, now, authorized_subnets, duplicates, unauthorized,
                   pos, total_conflicts, conflict, ret, scan_start,
                   conflicts_start, rescan>>
    /\ UNCHANGED avars

\* auto_remediate_duplicate from resolve_conflict on, and total_conflicts += 1
DupResolve ==
    /\ epc = "dup_quarantined"
    /\ conflicts' = resolve_conflict(conflicts, conflict, AutoMethod(new_ip), now)
    /\ total_conflicts' = total_conflicts + 1
    /\ pos' = pos + 1
    /\ epc' = "dup_loop"
    /\ UNCHANGED <<devices, now, authorized_subnets, duplicates, unauthorized,
                   conflict, new_ip, ret, scan_start,
                   conflicts_start, rescan>>
    /\ UNCHANGED avars

\* An unauthorized scan over the table as it was before the first loop.
FullScanUnauthorizedStale ==
    /\ epc = "dup_loop"
    /\ pos > Len(duplicates)
    /\ unauthorized' = scan_for_unauthorized(scan_start, authorized_subnets)
    /\ pos' = 1
    /\ epc' = "unauth_loop"
    /\ UNCHANGED <<devices, conflicts, now, authorized_subnets, duplicates,
                   total_conflicts, conflict, new_ip, ret, scan_start,
                   conflicts_start, rescan>>
    /\ UNCHANGED avars

\* the first loop is over: the unauthorized scan
FullScanUnauthorized ==
    /\ epc = "dup_loop"
    /\ pos > Len(duplicates)
    /\ unauthorized' = scan_for_unauthorized(devices, authorized_subnets)
    /\ pos' = 1
    /\ epc' = "unauth_loop"
    /\ UNCHANGED <<devices, conflicts, now, authorized_subnets, duplicates,
                   total_conflicts, conflict, new_ip, ret, scan_start,
                   conflicts_start, rescan>>
    /\ UNCHANGED avars

\* auto_remediate_unauthorized up to log_conflict
UnLogConflict ==
    /\ epc = "unauth_loop"
    /\ pos <= Len(unauthorized)
    /\ conflicts' = log_conflict(conflicts, devices[unauthorized[pos]].ip_address,
                                 <<"N/A">>, "unauthorized", now)
    /\ conflict' = Len(conflicts) + 1
    /\ epc' = "un_logged"
    /\ UNCHANGED <<devices, now, authorized_subnets, duplicates, unauthorized,
                   pos, total_conflicts, new_ip, ret, scan_start,
                   conflicts_start, rescan>>
    /\ UNCHANGED avars

\* auto_remediate_unauthorized from resolve_conflict on, and total_conflicts += 1
UnResolve ==
    /\ epc = "un_quarantined"
    /\ conflicts' = resolve_conflict(conflicts, conflict, AutoMethod(new_ip), now)
    /\ total_conflicts' = total_conflicts + 1
    /\ pos' = pos + 1
    /\ epc' = "unauth_loop"
    /\ UNCHANGED <<devices, now, authorized_subnets, duplicates, unauthorized,
                   conflict, new_ip, ret, scan_start,
                   conflicts_start, rescan>>
    /\ UNCHANGED avars

\* the second loop is over: return total_conflicts; the locals are gone.
\* ret keeps the argument of the scan and the devices table it started from.
FullScanReturn ==
    /\ epc = "unauth_loop"
    /\ pos > Len(unauthorized)
    /\ ret' = [op |-> "run_full_scan",
               args |-> <<authorized_subnets, scan_start, conflicts_start, rescan>>,
               value |-> total_conflicts]
    /\ epc' = "idle"
    /\ authorized_subnets' = <<>>
    /\ duplicates' = <<>>
    /\ unauthorized' = <<>>
    /\ pos' = 1
    /\ total_conflicts' = 0
    /\ conflict' = 0
    /\ new_ip' = <<>>
    /\ scan_start' = <<>>
    /\ conflicts_start' = <<>>
    /\ rescan' = FALSE
    /\ UNCHANGED <<devices, conflicts, now>>
    /\ UNCHANGED avars

(***************************************************************************)
(* A registry write that fails.  Each of log_conflict, quarantine_device   *)
(* and resolve_conflict ends in session.commit(); no caller of them has an *)
(* except clause, so an exception of the commit leaves run_full_scan       *)
(* through both calls.  The tables keep what was committed before.         *)
(***************************************************************************)
\* the device of the remediation in progress, at any position of it
Offender ==
    IF epc \in {"dup_loop", "dup_logged", "dup_quarantined"}
    THEN duplicates[pos].device2
    ELSE unauthorized[pos]

\* what the caller of run_full_scan is left with: the write that raised, the
\* device it was for and the id of the conflict logged for it (0 if none)
Raised(write, logged) ==
    [op |-> "run_full_scan_raised",
     args |-> <<authorized_subnets, scan_start, conflicts_start, write, Offender>>,
     value |-> logged]

\* the frame of run_full_scan is unwound
Unwind ==
    /\ epc' = "idle"
    /\ authorized_subnets' = <<>>
    /\ duplicates' = <<>>
    /\ unauthorized' = <<>>
    /\ pos' = 1
    /\ total_conflicts' = 0
    /\ conflict' = 0
    /\ new_ip' = <<>>
    /\ scan_start' = <<>>
    /\ conflicts_start' = <<>>
    /\ rescan' = FALSE
    /\ UNCHANGED <<devices, conflicts, now>>
    /\ UNCHANGED avars

\* the commit of log_conflict raises
LogConflictRaises ==
    /\ \/ epc = "dup_loop" /\ pos <= Len(duplicates)
       \/ epc = "unauth_loop" /\ pos <= Len(unauthorized)
    /\ ret' = Raised("log_conflict", 0)
    /\ Unwind

\* A failed quarantine write that is swallowed: the remediation goes on to
\* resolve_conflict with the address it drew.
QuarantineRaisesSwallowed ==
    /\ epc \in {"dup_logged", "un_logged"}
    /\ \E n \in RandomOffsets : new_ip' = QuarantineIp(n)
    /\ epc' = IF epc = "dup_logged" THEN "dup_quarantined" ELSE "un_quarantined"
    /\ UNCHANGED <<devices, conflicts, now, authorized_subnets, duplicates,
                   unauthorized, pos, total_conflicts, conflict, ret, scan_start,
                   conflicts_start, rescan>>
    /\ UNCHANGED avars

\* the commit of quarantine_device raises
QuarantineRaises ==
    /\ epc \in {"dup_logged", "un_logged"}
    /\ ret' = Raised("quarantine_device", conflict)
    /\ Unwind

\* the commit of resolve_conflict raises
ResolveRaises ==
    /\ epc \in {"dup_quarantined", "un_quarantined"}
    /\ ret' = Raised("resolve_conflict", conflict)
    /\ Unwind

NextEngine ==
    \/ Tick \/ AddDevice \/ LogConflict \/ ResolveConflict
    \/ ScanForDuplicates \/ ScanForUnauthorized \/ GetConflictReport
    \/ FullScanBegin \/ DupLogConflict \/ QuarantineDevice \/ DupResolve
    \/ FullScanUnauthorized \/ UnLogConflict \/ UnResolve \/ FullScanReturn

\* one SubnetCalculator, never called, beside the engine
InitEngine == Init /\ network = IPv4Network(<<10, 0, 0, 0>>, 24)

SpecEngine == InitEngine /\ [][NextEngine]_vars

\* the registry filled by add_device and scanned by run_full_scan, any of
\* whose writes may fail
NextFaulty ==
    \/ Tick \/ AddDevice
    \/ FullScanBegin \/ DupLogConflict \/ QuarantineDevice \/ DupResolve
    \/ FullScanUnauthorized \/ UnLogConflict \/ UnResolve \/ FullScanReturn
    \/ LogConflictRaises \/ QuarantineRaises \/ ResolveRaises

SpecFaulty == InitEngine /\ [][NextFaulty]_vars

(***************************************************************************)
(* src/subnet_calculator.py: calculate_subnets                             *)
(***************************************************************************)
\* the largest num_subnets of a call; the smallest is -1
MaxSubnets == 20

SubnetCounts == (-1)..MaxSubnets

\* w * i for a small non-negative i
WScale(w, i) == <<w[1] * i + ((w[2] * i) \div Limb), (w[2] * i) % Limb>>

\* A return without the slice.
FirstNAll(list, n) == list

\* list[:n] for n >= 0
FirstN(list, n) == SubSeq(list, 1, IF n < Len(list) THEN n ELSE Len(list))

\* list(net.subnets(new_prefix=new_prefix)) for new_prefix >= net.prefixlen
Subnets(net, new_prefix) ==
    [ i \in 1..(2 ^ (new_prefix - net.prefixlen)) |->
        [ network_address |-> WAdd(net.network_address,
                                   WScale(Pow2W(32 - new_prefix), i - 1)),
          prefixlen       |-> new_prefix ] ]

\* SubnetCalculator.calculate_subnets.  math.log2 raises ValueError on
\* num_subnets <= 0 and the code raises it on new_prefix > 30; the except
\* clause turns both into the empty list.
calculate_subnets(net, num_subnets) ==
    IF num_subnets <= 0 THEN <<>>
    ELSE LET bits_needed == MathCeilLog2(WInt(num_subnets))
             new_prefix == net.prefixlen + bits_needed
         IN  IF new_prefix > 30 THEN <<>>
             ELSE FirstN(Subnets(net, new_prefix), num_subnets)

\* a call of calculate_subnets on the calculator
CalculateSubnets ==
    /\ pc = "idle"
    /\ \E num_subnets \in SubnetCounts :
          ret' = [op |-> "calculate_subnets", args |-> num_subnets,
                  value |-> calculate_subnets(network, num_subnets)]
    /\ UNCHANGED <<devices, conflicts, now, epc>>
    /\ UNCHANGED scan_locals
    /\ UNCHANGED avars

NextSubnets == CalculateSubnets

SpecSubnets == Init /\ [][NextSubnets]_vars

(***************************************************************************)
(* Vocabulary of the claims about the engine.                              *)
(***************************************************************************)
\* the ids of the active devices of a table, and those among them on one ip
ActiveIds(table) == { i \in 1..Len(table) : table[i].status = "active" }

Holders(table, ip) == { i \in ActiveIds(table) : table[i].ip_address = ip }

\* the earliest holder in id order
FirstHolder(table, ip) ==
    CHOOSE i \in Holders(table, ip) : \A j \in Holders(table, ip) : i <= j

HeldIps(table) == { table[i].ip_address : i \in ActiveIds(table) }

\* C13: scan_for_duplicates looks at active devices only and is
\* first-seen-wins: every pair it returns joins the first active holder of
\* an IP with a later active holder, no later holder is paired twice, and an
\* IP with k active holders gets exactly k-1 pairs (so one pair when exactly
\* two active devices share one IP and all other IPs are unique).
C13_FirstSeenWins ==
    ret.op = "scan_for_duplicates" =>
        LET pairs == ret.value
        IN  /\ \A j \in 1..Len(pairs) :
                  /\ Holders(devices, pairs[j].ip) # {}
                  /\ pairs[j].device1 = FirstHolder(devices, pairs[j].ip)
                  /\ pairs[j].device2 \in Holders(devices, pairs[j].ip)
                  /\ pairs[j].device2 # pairs[j].device1
            /\ \A j1, j2 \in 1..Len(pairs) :
                  pairs[j1].device2 = pairs[j2].device2 => j1 = j2
            /\ \A ip \in HeldIps(devices) :
                  Cardinality({ j \in 1..Len(pairs) : pairs[j].ip = ip })
                      = Cardinality(Holders(devices, ip)) - 1

\* Three active devices on one IP were scanned beside nothing else: two
\* pairs, both with the first holder.
C13_Witness ==
    /\ ret.op = "scan_for_duplicates"
    /\ Len(ret.value) = 2
    /\ \E ip \in HeldIps(devices) : Cardinality(Holders(devices, ip)) = 3

\* the first p of the 32 bits of an address
TopBits(n, p) ==
    IF p <= 16 THEN <<n[1] \div (2 ^ (16 - p)), 0>>
    ELSE <<n[1], n[2] \div (2 ^ (32 - p))>>

\* the address string lies in the block written as <<quad, prefix>>
InBlock(ip, block) ==
    TopBits(ParseQuad(ip), block[2]) = TopBits(ParseQuad(block[1]), block[2])

Covered(ip, authorized) == \E i \in 1..Len(authorized) : InBlock(ip, authorized[i])

AllCovered(table, authorized) ==
    \A i \in ActiveIds(table) : Covered(table[i].ip_address, authorized)

\* a run_full_scan has returned and nothing has been written since
ScanDone == ret.op = "run_full_scan"

ScanAuthorized == ret.args[1]

ScanStart == ret.args[2]

\* the devices a scan moved to quarantine
QuarantinedBy(before, after) ==
    { i \in 1..Len(before) : /\ before[i].status = "active"
                             /\ after[i].status = "quarantined" }

\* exactly one IP is held by more than one active device, and by two
OneDuplicate(table) ==
    \E ip \in HeldIps(table) :
        /\ Cardinality(Holders(table, ip)) = 2
        /\ \A other \in HeldIps(table) \ {ip} :
              Cardinality(Holders(table, other)) = 1

NoActiveDuplicate(table) ==
    \A ip \in HeldIps(table) : Cardinality(Holders(table, ip)) = 1

\* C14 as stated: after run_full_scan no two active devices share an IP, and
\* a registry with one IP duplicated between two active devices has exactly
\* one device quarantined by the scan.
C14_OneQuarantined ==
    ScanDone =>
        /\ NoActiveDuplicate(devices)
        /\ OneDuplicate(ScanStart) =>
              Cardinality(QuarantinedBy(ScanStart, devices)) = 1

\* C14 amended: after run_full_scan no two active devices share an IP, for
\* any registry and any authorized list; and when one IP is duplicated
\* between two active devices and every active device lies in an authorized
\* block, exactly one device has been quarantined by the scan.
C14_OneQuarantinedIfAuthorized ==
    ScanDone =>
        /\ NoActiveDuplicate(devices)
        /\ OneDuplicate(ScanStart) /\ AllCovered(ScanStart, ScanAuthorized) =>
              Cardinality(QuarantinedBy(ScanStart, devices)) = 1

\* A scan of three authorized active devices, two of them on one IP, has
\* returned.
C14_Witness ==
    /\ ScanDone
    /\ Len(ScanStart) = 3
    /\ ActiveIds(ScanStart) = {1, 2, 3}
    /\ OneDuplicate(ScanStart)
    /\ AllCovered(ScanStart, ScanAuthorized)
    /\ Cardinality(QuarantinedBy(ScanStart, devices)) = 1

\* the active devices of a table outside every block of a list
Outside(table, authorized) ==
    { i \in ActiveIds(table) : ~ Covered(table[i].ip_address, authorized) }

\* C15: scan_for_unauthorized returns exactly the active devices whose IP
\* lies in none of the authorized blocks, each once, where a block contains
\* every address from its network to its broadcast address and a block
\* written with host bits set stands for its network; the result is empty
\* when every active device is inside some block.
C15_ExactlyTheOutsiders ==
    ret.op = "scan_for_unauthorized" =>
        /\ { ret.value[j] : j \in 1..Len(ret.value) } = Outside(devices, ret.args)
        /\ Len(ret.value) = Cardinality(Outside(devices, ret.args))
        /\ AllCovered(devices, ret.args) => ret.value = <<>>

\* The network and the broadcast address of 192.168.1.0/24 are held by
\* active devices, the block was given as 192.168.1.77/24, and the scan
\* returned the empty list.
C15_Witness ==
    /\ ret.op = "scan_for_unauthorized"
    /\ ret.args = << <<<<192, 168, 1, 77>>, 24>> >>
    /\ Holders(devices, <<192, 168, 1, 0>>) # {}
    /\ Holders(devices, <<192, 168, 1, 255>>) # {}
    /\ ret.value = <<>>

\* quarantine_device has returned to the remediation that called it
AfterQuarantine == epc \in {"dup_quarantined", "un_quarantined"}

\* the address is the network address of 192.168.255.0/24 plus an offset of
\* RandLow..RandHigh
QuarantineAddress(ip) ==
    /\ ip[1] = 192 /\ ip[2] = 168 /\ ip[3] = 255
    /\ RandLow <= ip[4] /\ ip[4] <= RandHigh

\* C16: when quarantine_device returns, the device it was given has status
\* quarantined, the quarantine block as its subnet, and an IP that is the
\* block's network address plus an offset of 10..100 (so inside the block);
\* the value returned is that IP.
C16_QuarantinePostcondition ==
    AfterQuarantine =>
        /\ devices[Target].status = "quarantined"
        /\ devices[Target].subnet = quarantine_subnet
        /\ QuarantineAddress(devices[Target].ip_address)
        /\ InBlock(devices[Target].ip_address, quarantine_subnet)
        /\ new_ip = devices[Target].ip_address

\* An unauthorized device has just been moved to the last address of the
\* offset range.
C16_Witness ==
    /\ epc = "un_quarantined"
    /\ devices[Target].status = "quarantined"
    /\ new_ip = <<192, 168, 255, RandHigh>>
    /\ devices[Target].ip_address = new_ip

\* the pairs whose auto_remediate_duplicate has quarantined its device
RemediatedPairs ==
    IF epc = "dup_loop" THEN 1..(pos - 1)
    ELSE IF epc = "dup_quarantined" THEN 1..pos
    ELSE {}

\* every remediated pair has its first device as the scan found it and its
\* second device quarantined
FirstKeptSecondQuarantined ==
    \A j \in RemediatedPairs :
        /\ devices[duplicates[j].device1] = scan_start[duplicates[j].device1]
        /\ devices[duplicates[j].device1].status = "active"
        /\ devices[duplicates[j].device2].status = "quarantined"

\* the registry holds two devices, both active on 192.168.1.10
TwoOnTen(table) ==
    /\ Len(table) = 2
    /\ \A i \in 1..2 : /\ table[i].ip_address = <<192, 168, 1, 10>>
                       /\ table[i].status = "active"

\* run_full_scan returned 1, moved the second device into the quarantine
\* block and left the first as it was
SecondMovedOnly ==
    /\ ret.value = 1
    /\ devices[2].status = "quarantined"
    /\ InBlock(devices[2].ip_address, quarantine_subnet)
    /\ devices[1] = ScanStart[1]

\* C17 as stated: auto_remediate_duplicate keeps the first device of the
\* pair unchanged and quarantines the second; and with two devices on
\* 192.168.1.10 run_full_scan returns 1, the second device ends in the
\* quarantine block and the first is unchanged.
C17_FirstKept ==
    /\ FirstKeptSecondQuarantined
    /\ ScanDone /\ TwoOnTen(ScanStart) => SecondMovedOnly

\* C17 amended: the same, for a run_full_scan whose authorized list has a
\* block containing 192.168.1.10.
C17_FirstKeptIfAuthorized ==
    /\ FirstKeptSecondQuarantined
    /\ ScanDone /\ TwoOnTen(ScanStart)
          /\ Covered(<<192, 168, 1, 10>>, ScanAuthorized) => SecondMovedOnly

\* Two devices on 192.168.1.10 were scanned with 192.168.1.0/24 authorized:
\* the scan returned 1 and only the second device moved.
C17_Witness ==
    /\ ScanDone
    /\ TwoOnTen(ScanStart)
    /\ Covered(<<192, 168, 1, 10>>, ScanAuthorized)
    /\ SecondMovedOnly

\* one step of the conflicts table: no record goes away or changes its id,
\* a resolved record stays resolved, a record that appears is open
ConflictsOnlyGrow ==
    /\ Len(conflicts') >= Len(conflicts)
    /\ \A i \in 1..Len(conflicts) :
          /\ conflicts'[i].id = conflicts[i].id
          /\ conflicts[i].resolved => conflicts'[i].resolved
    /\ \A i \in (Len(conflicts) + 1)..Len(conflicts') : ~ conflicts'[i].resolved

\* a resolve_conflict that has just returned, on the id of a record, returned
\* true and the record is resolved
ResolveSucceeded ==
    (ret'.op = "resolve_conflict" /\ ret'.args \in 1..Len(conflicts')) =>
        /\ ret'.value = TRUE
        /\ conflicts'[ret'.args].resolved

\* C18: in every step, no conflict record is deleted, no resolved record
\* goes back to open, a freshly logged record is open, and resolve_conflict
\* on the id of a record returns true and makes it resolved.
C18_ResolvedIsTerminal == [][ConflictsOnlyGrow /\ ResolveSucceeded]_vars

\* A record logged by log_conflict has been resolved by a direct
\* resolve_conflict on its id, which returned true, beside another record.
C18_Witness ==
    /\ ret.op = "resolve_conflict"
    /\ ret.value = TRUE
    /\ ret.args \in 1..Len(conflicts)
    /\ conflicts[ret.args].conflict_type = "test"
    /\ conflicts[ret.args].resolved
    /\ Len(conflicts) >= 2

\* one step leaves the resolution of every resolved record as it was
ResolutionKept ==
    \A i \in 1..Len(conflicts) :
        (conflicts[i].resolved /\ i <= Len(conflicts')) =>
            /\ conflicts'[i].resolved_at = conflicts[i].resolved_at
            /\ conflicts'[i].resolution_method = conflicts[i].resolution_method

\* C19: a record is resolved once: after it is resolved, by remediation or
\* by hand, no later resolve_conflict on its id changes its resolved-at
\* timestamp or its resolution method.
C19_ResolvedOnce == [][ResolutionKept]_vars

\* the method string stored in a record is set and not ""
MethodGiven(c) ==
    /\ c.resolution_method # <<>>
    /\ c.resolution_method[1] # <<>>

\* the resolved-at timestamp is set and not before detection
ResolvedAfterDetected(c) ==
    /\ c.resolved_at # <<>>
    /\ c.resolved_at[1] >= c.detected_at

\* C20: in every reachable state every resolved record has a non-empty
\* resolution method and a resolved-at timestamp not before its detected-at
\* timestamp, however it was resolved.
C20_MethodAndTimestamp ==
    \A i \in 1..Len(conflicts) :
        conflicts[i].resolved =>
            MethodGiven(conflicts[i]) /\ ResolvedAfterDetected(conflicts[i])

\* run_full_scan has raised and nothing has been written since
ScanRaised == ret.op = "run_full_scan_raised"

\* the write that raised, the device it was for, the conflict logged for it
RaisedWrite == ret.args[4]

RaisedDevice == ret.args[5]

RaisedConflict == ret.value

\* C21: a remediation is atomic under write failures: when a scan has
\* stopped on a failed write after a conflict was logged for a device, the
\* device is in quarantine exactly if that conflict is resolved (never moved
\* with the conflict still open, never resolved without the move).
C21_Atomic ==
    (ScanRaised /\ RaisedConflict # 0) =>
        (devices[RaisedDevice].status = "quarantined"
            <=> conflicts[RaisedConflict].resolved)

\* the remediation stands before the write of quarantine_device
BeforeQuarantine == epc \in {"dup_logged", "un_logged"}

\* a step that leaves that position without having moved the device leaves
\* run_full_scan with the exception, the conflict logged for the device open
QuarantineFailureSurfaced ==
    (BeforeQuarantine /\ epc' # epc /\ devices'[Offender] = devices[Offender]) =>
        /\ ret'.op = "run_full_scan_raised"
        /\ ret'.args[4] = "quarantine_device"
        /\ ret'.args[5] = Offender
        /\ ret'.value = conflict
        /\ epc' = "idle"
        /\ ~ conflicts'[conflict].resolved
        /\ conflicts'[conflict].resolved_at = <<>>

\* C22: when the write that reassigns the device fails during a
\* remediation, the failure reaches the caller of run_full_scan and the
\* conflict logged for the device is not marked resolved.
C22_FailureSurfaced == [][QuarantineFailureSurfaced]_vars

\* The quarantine write of a remediation has raised: the caller holds the
\* exception, the device is where it was and its conflict is open.
C22_Witness ==
    /\ ScanRaised
    /\ RaisedWrite = "quarantine_device"
    /\ devices[RaisedDevice].status = "active"
    /\ devices[RaisedDevice] = ret.args[2][RaisedDevice]
    /\ ~ conflicts[RaisedConflict].resolved

\* the rows of a table that pass a test of the claim
OpenConflicts == { i \in 1..Len(conflicts) : ~ conflicts[i].resolved }

ResolvedConflicts == { i \in 1..Len(conflicts) : conflicts[i].resolved }

QuarantinedDevices == { i \in 1..Len(devices) : devices[i].status = "quarantined" }

\* the fraction <<n, d>> equals resolved / (open + resolved) * 100
IsRate(rate, open, resolved) ==
    /\ rate[2] > 0
    /\ rate[1] * (open + resolved) = resolved * 100 * rate[2]

\* C23: get_conflict_report returns the number of open records, of resolved
\* records and of quarantined devices, and a resolution rate of
\* resolved / (active + resolved) * 100 that is exactly 0 when there is no
\* record and lies in 0..100.
C23_Report ==
    ret.op = "get_conflict_report" =>
        LET open == Cardinality(OpenConflicts)
            resolved == Cardinality(ResolvedConflicts)
            rate == ret.value.resolution_rate
        IN  /\ ret.value.active_conflicts = open
            /\ ret.value.resolved_conflicts = resolved
            /\ ret.value.quarantined_devices = Cardinality(QuarantinedDevices)
            /\ open + resolved > 0 => IsRate(rate, open, resolved)
            /\ open + resolved = 0 => rate[1] = 0 /\ rate[2] > 0
            /\ 0 <= rate[1] /\ rate[1] <= 100 * rate[2]

\* A report over one open record, one resolved record and a quarantined
\* device: half of the conflicts are resolved.
C23_Witness ==
    /\ ret.op = "get_conflict_report"
    /\ ret.value.active_conflicts = 1
    /\ ret.value.resolved_conflicts = 1
    /\ ret.value.quarantined_devices = 1
    /\ ret.value.resolution_rate = <<100, 2>>

\* the smallest b with 2^b >= n, for n >= 1
CeilLog2(n) == CHOOSE b \in 0..32 : 2 ^ b >= n /\ \A j \in 0..(b - 1) : 2 ^ j < n

\* first and last address of a subnet
SubnetLo(sn) == sn.network_address

SubnetHi(sn) == WAdd(sn.network_address, WSub(Pow2W(32 - sn.prefixlen), WInt(1)))

RECURSIVE WTimes(_, _)
\* i times w, by addition
WTimes(w, i) == IF i = 0 THEN WInt(0) ELSE WAdd(w, WTimes(w, i - 1))

\* C24: calculate_subnets(n) on a parent of prefix p, for n >= 1 with
\* p + ceil(log2(n)) <= 30, returns exactly n subnets, all of prefix
\* p + ceil(log2(n)), pairwise disjoint and inside the parent: the first n
\* subnets of that size in address order.
C24_EqualSubnets ==
    (/\ ret.op = "calculate_subnets"
     /\ ret.args >= 1
     /\ network.prefixlen + CeilLog2(ret.args) <= 30) =>
        LET out == ret.value
            new_prefix == network.prefixlen + CeilLog2(ret.args)
        IN  /\ Len(out) = ret.args
            /\ \A i \in 1..Len(out) :
                  /\ out[i].prefixlen = new_prefix
                  /\ SubnetLo(out[i]) =
                        WAdd(network.network_address,
                             WTimes(Pow2W(32 - new_prefix), i - 1))
                  /\ WLe(network.network_address, SubnetLo(out[i]))
                  /\ WLe(SubnetHi(out[i]), broadcast_address(network))
            /\ \A i, j \in 1..Len(out) :
                  i < j => WLt(SubnetHi(out[i]), SubnetLo(out[j]))

\* 10.0.0.0/24 was split for five subnets: the first five of its eight /27.
C24_Witness ==
    /\ ret.op = "calculate_subnets"
    /\ ret.args = 5
    /\ network = IPv4Network(<<10, 0, 0, 0>>, 24)
    /\ Len(ret.value) = 5
    /\ StrNet(ret.value[5]) = <<<<10, 0, 0, 128>>, 27>>

\* the conflicts table when the scan that returned began
ScanStartConflicts == ret.args[3]

\* the active devices of a table that are not the first holder of their IP
LaterHolders(table) ==
    { i \in ActiveIds(table) : i # FirstHolder(table, table[i].ip_address) }

\* the first holders outside every authorized block
FirstHoldersOutside(table, authorized) ==
    Outside(table, authorized) \ LaterHolders(table)

\* the unauthorized scan has been taken
InSecondLoop == epc \in {"unauth_loop", "un_logged", "un_quarantined"}

\* when the unauthorized scan is taken every duplicate is remediated, and no
\* device of the first loop is in the list of the second
DuplicatesFirst ==
    InSecondLoop =>
        /\ \A j \in 1..Len(duplicates) :
              devices[duplicates[j].device2].status = "quarantined"
        /\ \A j \in 1..Len(duplicates), m \in 1..Len(unauthorized) :
              duplicates[j].device2 # unauthorized[m]
        /\ \A m1, m2 \in 1..Len(unauthorized) :
              unauthorized[m1] = unauthorized[m2] => m1 = m2

\* the count returned is pairs plus first holders left outside, the number
\* of devices the scan moved and the number of records it logged
CountReturned ==
    ScanDone =>
        /\ ret.value = Cardinality(LaterHolders(ScanStart))
                       + Cardinality(FirstHoldersOutside(ScanStart, ScanAuthorized))
        /\ ret.value = Cardinality(QuarantinedBy(ScanStart, devices))
        /\ ret.value = Len(conflicts) - Len(ScanStartConflicts)

\* C25: run_full_scan remediates every duplicate before it takes the
\* unauthorized scan, so no device is quarantined twice in one scan, and it
\* returns the number of duplicate pairs of the initial registry plus the
\* number of active unauthorized devices left after the first loop, which
\* is the number of conflict records it logged.
C25_DuplicatesThenUnauthorized == DuplicatesFirst /\ CountReturned

\* Two devices shared an IP outside every authorized block: the second was
\* quarantined as a duplicate, the first as unauthorized, and 2 was returned.
C25_Witness ==
    /\ ScanDone
    /\ Len(ScanStart) = 2
    /\ OneDuplicate(ScanStart)
    /\ Outside(ScanStart, ScanAuthorized) = {1, 2}
    /\ ret.value = 2
    /\ Len(conflicts) = Len(ScanStartConflicts) + 2

\* the record is resolved with a method string that names the address
ResolvedNaming(c, ip) ==
    /\ c.resolved
    /\ c.resolution_method # <<>>
    /\ Len(c.resolution_method[1]) = 2
    /\ c.resolution_method[1][2] = ip

\* the record the running scan logged for its n-th remediation
LoggedRecord(n) == conflicts[Len(conflicts_start) + n]

\* every remediation of the running scan that has returned left its record
\* resolved, naming the address its device now has
RemediationsResolved ==
    /\ epc = "dup_loop" =>
          \A j \in 1..(pos - 1) :
              ResolvedNaming(LoggedRecord(j),
                             devices[duplicates[j].device2].ip_address)
    /\ epc = "unauth_loop" =>
          \A m \in 1..(pos - 1) :
              ResolvedNaming(LoggedRecord(Len(duplicates) + m),
                             devices[unauthorized[m]].ip_address)

\* the open records of a table
OpenIn(table) == { i \in 1..Len(table) : ~ table[i].resolved }

\* a scan that returned left as many open records as it found, and all it
\* logged resolved, naming a quarantine address
OpenCountKept ==
    ScanDone =>
        /\ Cardinality(OpenIn(conflicts)) = Cardinality(OpenIn(ScanStartConflicts))
        /\ \A i \in (Len(ScanStartConflicts) + 1)..Len(conflicts) :
              \E d \in QuarantinedBy(ScanStart, devices) :
                  ResolvedNaming(conflicts[i], devices[d].ip_address)

\* C26: every conflict record a remediation logs is resolved when the
\* remediation returns, with a method string that names the new quarantine
\* IP of the device it moved; so a failure-free run_full_scan leaves the
\* number of open conflict records as it was.
C26_LoggedThenResolved == RemediationsResolved /\ OpenCountKept

\* A scan found one open record, logged and resolved one of its own and
\* returned: one record is open, as before.
C26_Witness ==
    /\ ScanDone
    /\ Cardinality(OpenIn(ScanStartConflicts)) = 1
    /\ Len(conflicts) = Len(ScanStartConflicts) + 1
    /\ conflicts[Len(conflicts)].resolved
    /\ Cardinality(OpenIn(conflicts)) = 1

\* the scan that returned had been called right after a run_full_scan
\* returned for the same authorized list
WasRescan == ret.args[4]

\* a rescan in progress has found nothing and written nothing
RescanIdle ==
    (epc # "idle" /\ rescan) =>
        /\ duplicates = <<>>
        /\ InSecondLoop => unauthorized = <<>>
        /\ total_conflicts = 0
        /\ devices = scan_start
        /\ conflicts = conflicts_start

\* a rescan that returned returned 0 and left both tables as they were
RescanReturnsZero ==
    (ScanDone /\ WasRescan) =>
        /\ ret.value = 0
        /\ devices = ScanStart
        /\ conflicts = ScanStartConflicts

\* C27: a second run_full_scan with the same authorized blocks, right after
\* a failure-free one, finds no duplicate and no unauthorized device,
\* returns 0, logs no conflict and changes no device.
C27_Idempotent == RescanIdle /\ RescanReturnsZero

\* A rescan returned 0 over a registry in which the first scan had
\* quarantined a device.
C27_Witness ==
    /\ ScanDone
    /\ WasRescan
    /\ \E i \in 1..Len(ScanStart) : ScanStart[i].status = "quarantined"
    /\ \E i \in 1..Len(ScanStart) : ScanStart[i].status = "active"
    /\ ret.value = 0

\* C28: quarantine addresses are not reused: no two quarantined devices
\* hold the same IP address.
C28_NoAddressReuse ==
    \A i, j \in QuarantinedDevices :
        devices[i].ip_address = devices[j].ip_address => i = j

\* the fields of a device the engine never writes
Identity(d) == <<d.id, d.device_name, d.device_type, d.mac_address, d.last_seen>>

\* one step keeps every device's identity, and changes a device only if it
\* is the one handed to quarantine_device, which becomes quarantined
DeviceFrame ==
    /\ Len(devices') >= Len(devices)
    /\ \A i \in 1..Len(devices) :
          /\ Identity(devices'[i]) = Identity(devices[i])
          /\ devices'[i] # devices[i] =>
                /\ BeforeQuarantine
                /\ i = Offender
                /\ devices'[i].status = "quarantined"

\* a scan that has just returned wrote to neither table
ScansReadOnly ==
    ret'.op \in {"scan_for_duplicates", "scan_for_unauthorized"} =>
        devices' = devices /\ conflicts' = conflicts

\* C29: the engine writes only the ip address, status and subnet of the
\* device it quarantines: scan_for_duplicates and scan_for_unauthorized
\* change no device and no conflict record, and a remediation leaves every
\* other device, and the id, name, device class, MAC and last-seen of the
\* quarantined device, unchanged.
C29_WritesConfined == [][DeviceFrame /\ ScansReadOnly]_vars

\* The first remediation of a scan over two devices has moved its device:
\* the other device is as the scan found it, and so is the identity of the
\* moved one.
C29_Witness ==
    /\ AfterQuarantine
    /\ Len(devices) = 2
    /\ total_conflicts = 0
    /\ devices[Target] # scan_start[Target]
    /\ Identity(devices[Target]) = Identity(scan_start[Target])
    /\ \A i \in 1..2 : i # Target => devices[i] = scan_start[i]

\* C30: retrying after a failed write is safe: once a run_full_scan has
\* returned without failure, also after earlier scans were aborted by a
\* write error, every offending device is quarantined with exactly one
\* conflict record logged for it, and no record the engine created is open.
C30_RetrySafe ==
    ScanDone =>
        /\ \A i \in 1..Len(conflicts) : conflicts[i].resolved
        /\ Len(conflicts) = Cardinality(QuarantinedDevices)

====
